---- MODULE Spec2Model ----
(***************************************************************************)
(* repo_miner: fetch_commits (src/src/repo_miner.py) as a step machine,    *)
(* and fetch_issues, which the tests import but the module does not        *)
(* define, as the specification describes it.                              *)
(*                                                                         *)
(* Python values are tagged records so that None, strings, integers and    *)
(* objects can be compared: PyNone, PyStr(s), PyInt(n), GitAuthor(...),    *)
(* DateTime(...).  A commit message is a tuple of one-character strings,   *)
(* because the code splits it; every other string is a TLA+ string.        *)
(***************************************************************************)
EXTENDS Integers, Sequences, FiniteSets, TLC

VARIABLES
    token,          \* os.getenv('GITHUB_TOKEN')
    max_commits,    \* argument of fetch_commits
    pc,             \* position in fetch_commits
    exception,      \* the exception fetch_commits left with, or "none"
    g,              \* TRUE once Github(token) was constructed
    repo,           \* TRUE once g.get_repo(repo_name) was called
    requested,      \* TRUE once repo.get_commits() was called
    source,         \* the commit sequence the remote source holds
    pulled,         \* how many items the for loop took from the iterator
    commit,         \* the loop variable
    commits_data,   \* list of record dicts
    commit_count,   \* counter of the loop
    df,             \* the DataFrame returned
    state,          \* argument of fetch_issues
    ipc,            \* position in fetch_issues
    isource,        \* the raw items the remote source yields
    ipos,           \* how many raw items were processed
    issues_data,    \* the issue records produced
    now             \* the wall clock

cvars == <<token, max_commits, pc, exception, g, repo, requested, source,
           pulled, commit, commits_data, commit_count, df>>
ivars == <<state, ipc, isource, ipos, issues_data, now>>
vars == <<cvars, ivars>>

----------------------------------------------------------------------------
(* Bounds *)

MaxCommits == 2
MaxCap == 3
MaxIssues == 2

----------------------------------------------------------------------------
(* Python values *)

PyNone == [t |-> "None"]
PyStr(s) == [t |-> "str", v |-> s]
PyInt(n) == [t |-> "int", v |-> n]

\* Python truth value: None, 0 and the empty string are false, objects true.
Truthy(x) ==
    CASE x.t = "None" -> FALSE
      [] x.t = "str"  -> Len(x.v) > 0
      [] x.t = "int"  -> x.v # 0
      [] OTHER        -> TRUE

DateTime(y, mo, d, h, mi, s, us) ==
    [t |-> "datetime", year |-> y, month |-> mo, day |-> d,
     hour |-> h, minute |-> mi, second |-> s, microsecond |-> us]

Digits == <<"0", "1", "2", "3", "4", "5", "6", "7", "8", "9">>
Digit(n) == Digits[(n % 10) + 1]
Pad2(n) == Digit(n \div 10) \o Digit(n)
Pad4(n) == Pad2(n \div 100) \o Pad2(n % 100)
Pad6(n) == Pad2(n \div 10000) \o Pad4(n % 10000)

\* datetime.isoformat() of a naive datetime: YYYY-MM-DDTHH:MM:SS, followed by
\* .ffffff when the microsecond is not 0.
IsoFormat(dt) ==
    Pad4(dt.year) \o "-" \o Pad2(dt.month) \o "-" \o Pad2(dt.day) \o "T"
    \o Pad2(dt.hour) \o ":" \o Pad2(dt.minute) \o ":" \o Pad2(dt.second)
    \o (IF dt.microsecond # 0 THEN "." \o Pad6(dt.microsecond) ELSE "")

----------------------------------------------------------------------------
(* The remote source's commit objects *)

GitAuthor(name, email, date) ==
    [t |-> "GitAuthor", name |-> name, email |-> email, date |-> date]

Date1 == DateTime(2025, 9, 25, 15, 30, 0, 0)
Date2 == DateTime(2025, 1, 1, 12, 0, 5, 1500)

\* commit.commit.author: absent, complete, or with one attribute None.
Authors ==
    << PyNone,
       GitAuthor(PyStr("Alice"), PyStr("a@example.com"), Date1),
       GitAuthor(PyNone, PyStr("b@example.com"), Date2),
       GitAuthor(PyStr("Bob"), PyNone, Date2),
       GitAuthor(PyStr("Bob"), PyStr("b@example.com"), PyNone) >>

\* commit.commit.message: absent, empty, one line, two lines, leading newline.
Messages ==
    << PyNone,
       PyStr(<< >>),
       PyStr(<<"F", "i", "x">>),
       PyStr(<<"A", "d", "d", "\n", "x">>),
       PyStr(<<"\n", "b">>) >>

\* One commit, with a sha of its own, per author and message.
RawCommit(i, j) ==
    [sha |-> PyStr("sha" \o Digit(i) \o Digit(j)),
     author |-> Authors[i], message |-> Messages[j]]

RawCommits == {RawCommit(i, j) : i \in DOMAIN Authors, j \in DOMAIN Messages}

\* The sequences of distinct commits a repository can hold, up to MaxCommits.
Sources ==
    UNION {{s \in [1..n -> RawCommits] : \A a, b \in 1..n : a # b => s[a] # s[b]}
           : n \in 0..MaxCommits}

Tokens == {PyNone, PyStr(""), PyStr("ghp_token")}

\* What --max (type=int) or a caller can pass: nothing, or an integer.
Caps == {PyNone} \cup {PyInt(m) : m \in (-1)..MaxCap}

----------------------------------------------------------------------------
(* fetch_commits *)

Unknown == PyStr("Unknown")
NoMessage == PyStr(<<"N", "o", " ", "m", "e", "s", "s", "a", "g", "e">>)
Columns == <<"sha", "author", "email", "date", "message">>

\* if not token
TokenMissingNoneOnly(tok) == tok = PyNone
TokenMissing(tok) == ~Truthy(tok)

\* if max_commits and commit_count >= max_commits
CapReached(cap, count) == Truthy(cap) /\ count >= cap.v

\* str.split('\n')[0]: the text before the first newline.
RECURSIVE FirstLineFrom(_, _)
FirstLineFrom(s, i) ==
    IF i > Len(s) \/ s[i] = "\n" THEN SubSeq(s, 1, i - 1)
    ELSE FirstLineFrom(s, i + 1)

FirstLineWhole(s) == s
FirstLine(s) == FirstLineFrom(s, 1)

\* commit.commit.author.date.isoformat() on a date that is None
NormalizeRaises(c) == Truthy(c.author) /\ c.author.date = PyNone

AuthorFieldPerField(c, field) ==
    IF Truthy(c.author) /\ Truthy(c.author[field]) THEN c.author[field]
    ELSE Unknown
AuthorField(c, field) ==
    IF Truthy(c.author) THEN c.author[field] ELSE Unknown

MessageField(c) ==
    IF Truthy(c.message) THEN PyStr(FirstLine(c.message.v)) ELSE NoMessage

\* The record dict of lines 40-46, for a commit that does not raise.
NormalizeCommit(c) ==
    [sha |-> c.sha,
     author |-> AuthorField(c, "name"),
     email |-> AuthorField(c, "email"),
     date |-> IF Truthy(c.author) THEN PyStr(IsoFormat(c.author.date))
              ELSE Unknown,
     message |-> MessageField(c)]

AppendRecordFront(data, rec) == <<rec>> \o data
AppendRecord(data, rec) == Append(data, rec)

\* pd.DataFrame(list of dicts): the columns are the keys of the dicts, and an
\* empty list gives a frame without columns.
DataFrame(rows) ==
    [columns |-> IF Len(rows) = 0 THEN << >> ELSE Columns, rows |-> rows]

NoFrame == [columns |-> << >>, rows |-> << >>]

IssuesIdle ==
    /\ state = "all" /\ ipc = "idle" /\ isource = << >> /\ ipos = 0
    /\ issues_data = << >> /\ now = DateTime(2025, 1, 20, 9, 0, 0, 0)

Init ==
    /\ token \in Tokens
    /\ max_commits \in Caps
    /\ pc = "start"
    /\ exception = "none"
    /\ g = FALSE /\ repo = FALSE /\ requested = FALSE
    /\ source = << >>
    /\ pulled = 0
    /\ commit = PyNone
    /\ commits_data = << >>
    /\ commit_count = 0
    /\ df = NoFrame
    /\ IssuesIdle

\* lines 23-25
ReadToken ==
    /\ pc = "start"
    /\ IF TokenMissing(token)
       THEN pc' = "raised" /\ exception' = "ValueError"
       ELSE pc' = "client" /\ exception' = exception
    /\ UNCHANGED <<token, max_commits, g, repo, requested, source, pulled,
                   commit, commits_data, commit_count, df, ivars>>

\* line 28
MakeClient ==
    /\ pc = "client"
    /\ g' = TRUE
    /\ pc' = "get_repo"
    /\ UNCHANGED <<token, max_commits, exception, repo, requested, source,
                   pulled, commit, commits_data, commit_count, df, ivars>>

\* line 29
GetRepo ==
    /\ pc = "get_repo"
    /\ repo' = TRUE
    /\ pc' = "get_commits"
    /\ UNCHANGED <<token, max_commits, exception, g, requested, source,
                   pulled, commit, commits_data, commit_count, df, ivars>>

\* lines 32-35: the lists are set up and repo.get_commits() is called; the
\* remote source answers with the commits the repository holds.
GetCommits ==
    /\ pc = "get_commits"
    /\ \E s \in Sources : source' = s
    /\ requested' = TRUE
    /\ commits_data' = << >>
    /\ commit_count' = 0
    /\ pc' = "for"
    /\ UNCHANGED <<token, max_commits, exception, g, repo, pulled, commit,
                   df, ivars>>

\* line 35: the for statement takes the next item, or leaves the loop when
\* the iterator is exhausted.
ForNext ==
    /\ pc = "for"
    /\ IF pulled < Len(source)
       THEN /\ pulled' = pulled + 1
            /\ commit' = source[pulled + 1]
            /\ pc' = "body"
       ELSE /\ pc' = "build"
            /\ UNCHANGED <<pulled, commit>>
    /\ UNCHANGED <<token, max_commits, exception, g, repo, requested, source,
                   commits_data, commit_count, df, ivars>>

\* lines 36-49: break on the cap, else normalize, append and count.
LoopBody ==
    /\ pc = "body"
    /\ IF CapReached(max_commits, commit_count)
       THEN /\ pc' = "build"
            /\ UNCHANGED <<exception, commits_data, commit_count>>
       ELSE IF NormalizeRaises(commit)
       THEN /\ pc' = "raised"
            /\ exception' = "AttributeError"
            /\ UNCHANGED <<commits_data, commit_count>>
       ELSE /\ commits_data' = AppendRecord(commits_data, NormalizeCommit(commit))
            /\ commit_count' = commit_count + 1
            /\ pc' = "for"
            /\ UNCHANGED exception
    /\ UNCHANGED <<token, max_commits, g, repo, requested, source, pulled,
                   commit, df, ivars>>

\* lines 52-53
BuildDataFrame ==
    /\ pc = "build"
    /\ df' = DataFrame(commits_data)
    /\ pc' = "done"
    /\ UNCHANGED <<token, max_commits, exception, g, repo, requested, source,
                   pulled, commit, commits_data, commit_count, ivars>>

Next ==
    \/ ReadToken
    \/ MakeClient
    \/ GetRepo
    \/ GetCommits
    \/ ForNext
    \/ LoopBody
    \/ BuildDataFrame

Spec == Init /\ [][Next]_vars

----------------------------------------------------------------------------
(* fetch_issues, as sections 3 and 4.2 of the specification describe it *)

NamedUser(login) == [t |-> "NamedUser", login |-> login]
PullRequestMarker == [t |-> "dict", url |-> "http://example.com/pr"]

Created == DateTime(2025, 1, 1, 12, 0, 0, 0)

\* closed_at: not closed, or closed 0 s, 3 h, 1 day less 1 s, 1 day and
\* 5 days 3 h after Created.
Closings ==
    << PyNone,
       DateTime(2025, 1, 1, 12, 0, 0, 0),
       DateTime(2025, 1, 1, 15, 0, 0, 0),
       DateTime(2025, 1, 2, 11, 59, 59, 0),
       DateTime(2025, 1, 2, 12, 0, 0, 0),
       DateTime(2025, 1, 6, 15, 0, 0, 0) >>

Users == <<PyNone, NamedUser("alice")>>
Markers == <<PyNone, PullRequestMarker>>

RawIssue(c, u, p) ==
    [id |-> 100 * c + 10 * u + p,
     number |-> 100 * c + 10 * u + p,
     title |-> "Issue " \o Digit(c) \o Digit(u) \o Digit(p),
     user |-> Users[u],
     state |-> IF Closings[c] = PyNone THEN "open" ELSE "closed",
     created_at |-> Created,
     closed_at |-> Closings[c],
     comments |-> u,
     pull_request |-> Markers[p]]

RawIssues ==
    {RawIssue(c, u, p) : c \in DOMAIN Closings, u \in DOMAIN Users,
                         p \in DOMAIN Markers}

States == {"open", "closed", "all"}

\* The remote source's filter by state.
MatchesState(item, st) == st = "all" \/ item.state = st

\* The sequences of distinct raw items the remote source can yield for a filter.
IssueSources(st) ==
    UNION {{s \in [1..n -> {x \in RawIssues : MatchesState(x, st)}] :
               \A a, b \in 1..n : a # b => s[a] # s[b]}
           : n \in 0..MaxIssues}

Clocks == {DateTime(2025, 1, 20, 9, 0, 0, 0), DateTime(2025, 1, 27, 9, 0, 0, 0)}

\* Seconds since the start of the month; the datetimes above share one month.
SecondsOf(dt) == ((dt.day * 24 + dt.hour) * 60 + dt.minute) * 60 + dt.second

\* Whole days of the interval to - from: floor of the seconds over 86400.
WholeDays(from, to) == (SecondsOf(to) - SecondsOf(from)) \div 86400

\* The pull-request marker of a raw item.
HasPullRequestOpenOnly(item) == item.pull_request # PyNone /\ item.state = "open"
HasPullRequest(item) == item.pull_request # PyNone

\* open_duration_days: computed only when closed_at is present.
OpenDurationDaysRounded(item) ==
    IF item.closed_at = PyNone THEN PyNone
    ELSE PyInt((SecondsOf(item.closed_at) - SecondsOf(item.created_at) + 43200)
               \div 86400)
OpenDurationDays(item) ==
    IF item.closed_at = PyNone THEN PyNone
    ELSE PyInt(WholeDays(item.created_at, item.closed_at))

NormalizeIssue(item) ==
    [id |-> item.id,
     number |-> item.number,
     title |-> item.title,
     user |-> IF item.user = PyNone THEN PyNone ELSE PyStr(item.user.login),
     state |-> item.state,
     created_at |-> PyStr(IsoFormat(item.created_at)),
     closed_at |-> IF item.closed_at = PyNone THEN PyNone
                   ELSE PyStr(IsoFormat(item.closed_at)),
     comments |-> item.comments,
     open_duration_days |-> OpenDurationDays(item)]

CommitsIdle ==
    /\ token = PyStr("ghp_token") /\ max_commits = PyNone /\ pc = "idle"
    /\ exception = "none" /\ g = FALSE /\ repo = FALSE /\ requested = FALSE
    /\ source = << >> /\ pulled = 0 /\ commit = PyNone
    /\ commits_data = << >> /\ commit_count = 0 /\ df = NoFrame

InitIssues ==
    /\ state \in States
    /\ now \in Clocks
    /\ ipc = "start"
    /\ isource = << >>
    /\ ipos = 0
    /\ issues_data = << >>
    /\ CommitsIdle

\* The issues are requested, filtered by state.
RequestIssues ==
    /\ ipc = "start"
    /\ \E s \in IssueSources(state) : isource' = s
    /\ ipc' = "for"
    /\ UNCHANGED <<state, ipos, issues_data, now, cvars>>

\* One raw item: dropped when it carries a pull-request marker, normalized
\* and appended otherwise.
ProcessIssue ==
    /\ ipc = "for"
    /\ ipos < Len(isource)
    /\ ipos' = ipos + 1
    /\ issues_data' = IF HasPullRequest(isource[ipos + 1]) THEN issues_data
                      ELSE Append(issues_data, NormalizeIssue(isource[ipos + 1]))
    /\ UNCHANGED <<state, ipc, isource, now, cvars>>

\* The records are returned.
ReturnIssues ==
    /\ ipc = "for"
    /\ ipos = Len(isource)
    /\ ipc' = "done"
    /\ UNCHANGED <<state, isource, ipos, issues_data, now, cvars>>

NextIssues ==
    \/ RequestIssues
    \/ ProcessIssue
    \/ ReturnIssues

SpecIssues == InitIssues /\ [][NextIssues]_vars

----------------------------------------------------------------------------
(* Properties of fetch_commits, checked under Spec *)

TokenAbsent == token = PyNone \/ token = PyStr("")
Returned == pc = "done"
Min(a, b) == IF a <= b THEN a ELSE b
Records == 1..Len(commits_data)

\* C1: when max_commits is supplied (0 included) the number of records
\* returned is at most max_commits; when it is not supplied the number of
\* records returned is the length of the source.  Stated for the caps from 0
\* up: no result has fewer rows than a negative cap asks for.
C1_LengthWithinCap ==
    Returned =>
        IF max_commits = PyNone THEN Len(df.rows) = Len(source)
        ELSE max_commits.v >= 0 => Len(df.rows) <= max_commits.v

\* C2: for a positive cap m, and for no cap, the sha column of the result is
\* the sha column of the first min(m, n) commits of the source (all n without
\* a cap), in the source's order.
C2_ResultIsPrefix ==
    (Returned /\ (max_commits = PyNone \/ max_commits.v >= 1)) =>
        /\ Len(df.rows) = IF max_commits = PyNone THEN Len(source)
                          ELSE Min(max_commits.v, Len(source))
        /\ \A i \in 1..Len(df.rows) : df.rows[i].sha = source[i].sha

C2_Witness ==
    /\ Returned /\ max_commits = PyInt(1)
    /\ Len(source) = 2 /\ Len(df.rows) = 1
    /\ df.rows[1].sha = source[1].sha

\* C3, as claimed: with the token unset or empty, fetch_commits fails with a
\* ConfigurationError before a client is constructed, a repository looked
\* up or a commit requested, and returns no records.
C3_ConfigurationError ==
    (TokenAbsent /\ pc # "start") =>
        /\ pc = "raised" /\ exception = "ConfigurationError"
        /\ ~g /\ ~repo /\ ~requested /\ pulled = 0 /\ df = NoFrame

\* C3, amended: with the token unset or empty, fetch_commits fails with a
\* ValueError before a client is constructed, a repository looked up or a
\* commit requested, and returns no records.
C3_ValueErrorBeforeRemote ==
    (TokenAbsent /\ pc # "start") =>
        /\ pc = "raised" /\ exception = "ValueError"
        /\ ~g /\ ~repo /\ ~requested /\ pulled = 0 /\ df = NoFrame

C3_Witness == token = PyStr("") /\ pc = "raised" /\ exception = "ValueError"

\* The ISO-8601 text of the two author dates of the catalogue.
ExpectedIso(dt) ==
    IF dt = Date1 THEN "2025-09-25T15:30:00" ELSE "2025-01-01T12:00:05.001500"

\* C6: the record of a commit without author has author = email = date =
\* "Unknown"; the record of a commit with an author has the author's name
\* and email verbatim and the ISO-8601 text of the author's date.
C6_AuthorFallbackAtomic ==
    \A i \in Records :
        IF source[i].author = PyNone
        THEN /\ commits_data[i].author = Unknown
             /\ commits_data[i].email = Unknown
             /\ commits_data[i].date = Unknown
        ELSE /\ commits_data[i].author = source[i].author.name
             /\ commits_data[i].email = source[i].author.email
             /\ commits_data[i].date = PyStr(ExpectedIso(source[i].author.date))

C6_Witness ==
    /\ Returned
    /\ \E i, j \in 1..Len(df.rows) :
          /\ source[i].author = PyNone /\ df.rows[i].date = Unknown
          /\ source[j].author # PyNone /\ source[j].author.name = PyNone
          /\ df.rows[j].date = PyStr("2025-01-01T12:00:05.001500")

\* C7: the message of a record is the raw message up to, and without, its
\* first newline, so it holds no newline; it is "No message" when the raw
\* message is empty or absent.
C7_MessageFirstLine ==
    \A i \in Records :
        LET raw == source[i].message
            msg == commits_data[i].message.v
        IN  IF raw = PyNone \/ raw = PyStr(<< >>)
            THEN commits_data[i].message = NoMessage
            ELSE /\ Len(msg) <= Len(raw.v)
                 /\ \A k \in 1..Len(msg) : msg[k] = raw.v[k] /\ msg[k] # "\n"
                 /\ Len(msg) = Len(raw.v) \/ raw.v[Len(msg) + 1] = "\n"

C7_Witness ==
    /\ Returned
    /\ \E i, j \in 1..Len(df.rows) :
          /\ source[i].message = PyStr(<<"A", "d", "d", "\n", "x">>)
          /\ df.rows[i].message = PyStr(<<"A", "d", "d">>)
          /\ source[j].message = PyNone
          /\ df.rows[j].message = NoMessage

\* C8: the result carries the columns sha, author, email, date, message for
\* every source, the empty one included, where it has zero rows.
C8_ColumnsDefined ==
    Returned =>
        /\ df.columns = Columns
        /\ Len(source) = 0 => Len(df.rows) = 0

\* C9: with a cap m of at least 1, at most m items are taken from the
\* source's iterator.
C9_PullsAtMostCap ==
    (max_commits # PyNone /\ max_commits.v >= 1) => pulled <= max_commits.v

\* C10: whatever optional field of a raw commit is absent, fetch_commits
\* does not raise, and author, email, date and message of every record of
\* the result hold a string.
C10_MissingFieldsNeverRaise ==
    ~TokenAbsent =>
        /\ pc # "raised"
        /\ Returned =>
              \A i \in 1..Len(df.rows) :
                  /\ df.rows[i].author.t = "str"
                  /\ df.rows[i].email.t = "str"
                  /\ df.rows[i].date.t = "str"
                  /\ df.rows[i].message.t = "str"

----------------------------------------------------------------------------
(* Properties of fetch_issues, checked under SpecIssues *)

\* The raw item a record was made from.
RawOf(rec) == CHOOSE x \in RawIssues : x.id = rec.id

Ids(seq) == [k \in 1..Len(seq) |-> seq[k].id]
WithoutMarker(item) == item.pull_request = PyNone

\* C4: no record comes from a raw item with a pull-request marker; for every
\* state filter the result holds the raw items without a marker, in source
\* order.
C4_PullRequestsExcluded ==
    /\ \A k \in 1..Len(issues_data) : RawOf(issues_data[k]).pull_request = PyNone
    /\ ipc = "done" => Ids(issues_data) = Ids(SelectSeq(isource, WithoutMarker))

C4_Witness ==
    /\ ipc = "done" /\ state = "closed"
    /\ Len(isource) = 2 /\ Len(issues_data) = 1
    /\ isource[1].pull_request # PyNone
    /\ issues_data[1].id = isource[2].id

\* The whole days between Created and each closing time of the catalogue.
ExpectedDays == <<0, 0, 0, 0, 1, 5>>

\* C5: open_duration_days is the number of whole elapsed days from
\* created_at to closed_at, truncated (5 days 3 hours give 5), when closed_at
\* is present, and None when it is absent, whatever the clock says.
C5_OpenDurationTruncated ==
    \A k \in 1..Len(issues_data) :
        \A c \in DOMAIN Closings :
            RawOf(issues_data[k]).closed_at = Closings[c] =>
                issues_data[k].open_duration_days =
                    IF c = 1 THEN PyNone ELSE PyInt(ExpectedDays[c])

C5_Witness ==
    /\ ipc = "done"
    /\ \E a, b \in 1..Len(issues_data) :
          /\ RawOf(issues_data[a]).closed_at = DateTime(2025, 1, 6, 15, 0, 0, 0)
          /\ issues_data[a].open_duration_days = PyInt(5)
          /\ RawOf(issues_data[b]).closed_at = PyNone
          /\ issues_data[b].open_duration_days = PyNone

====
